---- MODULE Spec2Model ----
(***************************************************************************)
(* Model of the tariff classification pipeline of main.py: the per-post    *)
(* pipeline process_post -> classify_post (media loop, first request,      *)
(* truncate-and-retry), the ThreadPoolExecutor that runs it, the main      *)
(* thread that gathers the results and the three output levels.            *)
(*                                                                         *)
(* Python values are tagged records (PyNone, PyBool, PyStr, PyList) so     *)
(* that values of different Python types can be compared.  Texts whose     *)
(* characters matter (exception messages) are sequences of one-character   *)
(* strings.  A dict is a function from its keys to values.                 *)
(***************************************************************************)
EXTENDS Integers, Sequences, FiniteSets, TLC

\* ------------------------------------------------------------------ bounds
\* Longest input batch explored by Spec.
NumPosts == 2

\* Most image attachments of the post TruncSpec starts from.
MaxMedia == 4

\* Longest prompt the truncation is applied to on its own.
MaxPromptLen == 30

\* ThreadPoolExecutor(max_workers=10)
max_workers == 10

\* ------------------------------------------------------------ Python values
PyNone == [t |-> "none"]
PyBool(b) == [t |-> "bool", v |-> b]
PyStr(s) == [t |-> "str", v |-> s]
PyList(s) == [t |-> "list", v |-> s]

\* dict.get(key, default)
Get(d, key, default) == IF key \in DOMAIN d THEN d[key] ELSE default

\* ------------------------------------------------------- exception messages
\* str(e) of the exceptions the model raises, character by character.
MsgTooLong == <<"T", "o", "o", " ", "L", "o", "n", "g">>
MsgServerError == <<"E", "r", "r", "o", "r", " ", "5", "0", "0">>
MsgExpectingValue == <<"E", "x", "p", "e", "c", "t", "i", "n", "g">>

\* str.lower(), on one character
LowerChar(c) ==
    CASE c = "T" -> "t"
      [] c = "L" -> "l"
      [] c = "E" -> "e"
      [] c = "I" -> "i"
      [] OTHER -> c

\* str.lower()
Lower(s) == [i \in 1..Len(s) |-> LowerChar(s[i])]

\* needle in haystack, for sequences of characters
Contains(haystack, needle) ==
    \E i \in 0..(Len(haystack) - Len(needle)) :
        \A j \in 1..Len(needle) : haystack[i + j] = needle[j]

TooLongNeedle == <<"t", "o", "o", " ", "l", "o", "n", "g">>

\* "too long" in str(e).lower()
IsTooLong(msg) == Contains(Lower(msg), TooLongNeedle)

\* ------------------------------------------------------------------- inputs
\* One status of api.pull_statuses, the i-th of the batch.  A post with
\* media carries one image and one video attachment.
PlainPost(i) ==
    [created_at |-> ToString(i), content |-> "text", media_attachments |-> <<>>]

MediaPost(i) ==
    [created_at |-> ToString(i), content |-> "text",
     media_attachments |-> << [type |-> "image", url |-> "u1", id |-> "a"],
                              [type |-> "video", url |-> "u2", id |-> "b"] >>]

\* The batches Spec starts from: the first post has media, the others none.
Batch(n) == [i \in 1..n |-> IF i = 1 THEN MediaPost(i) ELSE PlainPost(i)]

\* requests.get(url): a response with a status code, or an exception
FetchOk == [raised |-> FALSE, status_code |-> 200]

FetchOutcomes ==
    { FetchOk,
      [raised |-> FALSE, status_code |-> 404],
      [raised |-> TRUE, status_code |-> 0] }

\* The json_schema of the request, strict: the documents a completed
\* response can hold.
SchemaResult(related, rate, products) ==
    [tariffs_related |-> PyBool(related),
     affected_country |-> PyStr("China"),
     affected_region |-> PyNone,
     products |-> PyList(products),
     published_time |-> PyStr("time"),
     tariff_rate |-> rate,
     classification |-> PyStr("threat"),
     media_analysis |-> PyNone]

SchemaResults ==
    { SchemaResult(TRUE, PyStr("25%"), <<"steel", "aluminum">>),
      SchemaResult(TRUE, PyNone, <<>>),
      SchemaResult(FALSE, PyStr(""), <<>>),
      SchemaResult(FALSE, PyStr("10%"), <<"wine">>) }

SchemaKeys ==
    {"tariffs_related", "affected_country", "affected_region", "products",
     "published_time", "tariff_rate", "classification", "media_analysis"}

\* response.output_text: the serialised document of a completed response,
\* or a text that is no JSON document (a refusal leaves it empty).
JsonText(doc) == [kind |-> "json", doc |-> doc]
EmptyText == [kind |-> "empty"]

\* What client.responses.create does: raise, or return a response.
ServiceErrors == {MsgTooLong, MsgServerError}

ServiceResponses ==
    { [raised |-> TRUE, msg |-> m] : m \in ServiceErrors }
    \cup { [raised |-> FALSE, output_text |-> JsonText(d)] : d \in SchemaResults }
    \cup { [raised |-> FALSE, output_text |-> EmptyText] }

\* json.loads(text or "{}"): an empty text parses to an empty dict
json_loads_lenient(text) ==
    IF text.kind = "json"
    THEN [raised |-> FALSE, value |-> text.doc]
    ELSE [raised |-> FALSE, value |-> <<>>]

\* json.loads(text)
json_loads(text) ==
    IF text.kind = "json"
    THEN [raised |-> FALSE, value |-> text.doc]
    ELSE [raised |-> TRUE, msg |-> MsgExpectingValue]

\* ------------------------------------------------------------ classify_post
\* structured, as process_post builds it before the classification is set
Structured(post) ==
    [created_at |-> post.created_at,
     content |-> post.content,
     media |-> [j \in 1..Len(post.media_attachments) |->
                   [type |-> post.media_attachments[j].type,
                    url |-> post.media_attachments[j].url]]]

\* json.dumps of one media item and of the media list, as one token each
DumpMedia(m) == "{type: " \o m.type \o ", url: " \o m.url \o "}"

RECURSIVE DumpList(_)
DumpList(ms) ==
    IF ms = <<>> THEN "" ELSE DumpMedia(Head(ms)) \o ";" \o DumpList(Tail(ms))

\* Every response other than 200 is reported like a failed fetch
MediaFragmentSameFallback(m, outcome) ==
    IF m.type = "image"
    THEN IF ~outcome.raised /\ outcome.status_code = 200
         THEN <<"Image (low): ", "data:image/jpeg;base64," \o m.url>>
         ELSE <<"Image URL: ", m.url, " (failed to fetch image)">>
    ELSE <<"Non-image media: ", DumpMedia(m)>>

\* The text one media item adds to enhanced_media_text, as tokens.
\* outcome is the outcome of requests.get and is not read for other media.
MediaFragment(m, outcome) ==
    IF m.type = "image"
    THEN IF outcome.raised
         THEN <<"Image URL: ", m.url, " (failed to fetch image)">>
         ELSE IF outcome.status_code = 200
              THEN <<"Image (low): ", "data:image/jpeg;base64," \o m.url>>
              ELSE <<"Image URL: ", m.url>>
    ELSE <<"Non-image media: ", DumpMedia(m)>>

RECURSIVE Flatten(_)
Flatten(ss) == IF ss = <<>> THEN <<>> ELSE Head(ss) \o Flatten(Tail(ss))

\* prompt_text, as a sequence of tokens; a token stands for one character
PromptText(structured, fragments) ==
    <<"Analyze the following post", "Published time: ", structured.created_at,
      "Content: ", structured.content, "Media URLs: ", DumpList(structured.media)>>
    \o Flatten(fragments)

\* prompt_text[:round(len(prompt_text) * 0.9)]
ShortenedRounded(prompt_text) ==
    SubSeq(prompt_text, 1, (Len(prompt_text) * 9 + 5) \div 10)

\* prompt_text[:int(len(prompt_text) * 0.9)]
Shortened(prompt_text) == SubSeq(prompt_text, 1, (Len(prompt_text) * 9) \div 10)

\* What a call of do_request followed by json.loads ends with: the parsed
\* document, or the message of the exception either of them raised.
Attempt(resp) ==
    IF resp.raised
    THEN [raised |-> TRUE, msg |-> resp.msg]
    ELSE json_loads(resp.output_text)

\* The outer try has no handler for errors that are not about length
FirstAttemptUncaught(resp) ==
    LET a == Attempt(resp) IN
    IF ~a.raised
    THEN [next |-> "return", classification |-> a.value]
    ELSE IF IsTooLong(a.msg)
         THEN [next |-> "retry"]
         ELSE [next |-> "raise"]

\* The outer handler retries whatever the error says
FirstAttemptRetriesAll(resp) ==
    LET a == Attempt(resp) IN
    IF ~a.raised
    THEN [next |-> "return", classification |-> a.value]
    ELSE [next |-> "retry"]

\* The outer handler stores the lowered text it has searched
FirstAttemptStoresLowered(resp) ==
    LET a == Attempt(resp) IN
    IF ~a.raised
    THEN [next |-> "return", classification |-> a.value]
    ELSE IF IsTooLong(a.msg)
         THEN [next |-> "retry"]
         ELSE [next |-> "return",
               classification |-> [error |-> PyStr(Lower(a.msg))]]

\* The outer try/except: the classification, or a retry
FirstAttempt(resp) ==
    LET a == Attempt(resp) IN
    IF ~a.raised
    THEN [next |-> "return", classification |-> a.value]
    ELSE IF IsTooLong(a.msg)
         THEN [next |-> "retry"]
         ELSE [next |-> "return", classification |-> [error |-> PyStr(a.msg)]]

\* The retry parses into a name nothing reads: the first error stays
SecondAttemptLosesResult(first, resp) ==
    LET a == Attempt(resp) IN
    IF ~a.raised
    THEN [next |-> "return",
          classification |-> [error |-> PyStr(Attempt(first).msg)]]
    ELSE [next |-> "return", classification |-> [error |-> PyStr(a.msg)]]

\* The inner handler reports e where it should report e2
SecondAttemptReportsFirst(first, resp) ==
    LET a == Attempt(resp) IN
    IF ~a.raised
    THEN [next |-> "return", classification |-> a.value]
    ELSE [next |-> "return",
          classification |-> [error |-> PyStr(Attempt(first).msg)]]

\* The retry runs outside any try: its exception leaves classify_post
SecondAttemptUncaught(first, resp) ==
    LET a == Attempt(resp) IN
    IF ~a.raised
    THEN [next |-> "return", classification |-> a.value]
    ELSE [next |-> "raise"]

\* The inner try/except; first is the response of the first attempt
SecondAttempt(first, resp) ==
    LET a == Attempt(resp) IN
    IF ~a.raised
    THEN [next |-> "return", classification |-> a.value]
    ELSE [next |-> "return", classification |-> [error |-> PyStr(a.msg)]]

\* A service that takes no text longer than the prompt of a post without
\* media and gives every other text the same document.
LimitedResponse(text) ==
    IF Len(text) > Len(PromptText(Structured(PlainPost(1)), <<>>))
    THEN [raised |-> TRUE, msg |-> MsgTooLong]
    ELSE [raised |-> FALSE,
          output_text |-> JsonText(SchemaResult(TRUE, PyStr("25%"), <<"steel">>))]

\* The answers a service may give to a text: any of them, or those of the
\* service with the limit.
Answers(service, text) ==
    IF service = "limited" THEN {LimitedResponse(text)} ELSE ServiceResponses

\* -------------------------------------------------------------------- state
VARIABLES
    posts,                \* list(api.pull_statuses(...))
    queue,                \* the executor's work queue: indices of posts, FIFO
    pc,                   \* pc[i]: where process_post(posts[i]) stands
    structured,           \* structured of process_post(posts[i])
    enhanced_media_text,  \* the fragments classify_post has added so far
    fetches,              \* the calls of requests.get and what they ended with
    requests,             \* the texts do_request was called with, in order
    responses,            \* what those calls ended with, in order
    future,               \* the future of process_post(posts[i])
    structured_posts,     \* the list main builds from executor.map
    main_pc,              \* where main stands
    outputs               \* the files written under outputs/

vars ==
    <<posts, queue, pc, structured, enhanced_media_text, fetches, requests,
      responses, future, structured_posts, main_pc, outputs>>

Indices == 1..Len(posts)

\* Where a call of process_post stands while a worker thread runs it: in
\* the media loop, in the first or the second call of do_request, in
\* time.sleep.
Running == {"media", "attempt1", "attempt2", "sleep"}

\* The posts a worker thread is running; each thread runs one work item at
\* a time, so these are as many as there are busy threads.
InFlight == {i \in Indices : pc[i] \in Running}

\* An executor that starts one thread too many
ThreadAvailableOffByOne == Cardinality(InFlight) <= max_workers

\* The executor has an idle thread, or may still start one.
ThreadAvailable == Cardinality(InFlight) < max_workers

\* The state when executor.map has submitted process_post for every post
InitOn(batch) ==
    /\ posts = batch
    /\ queue = [i \in 1..Len(batch) |-> i]
    /\ pc = [i \in 1..Len(batch) |-> "queued"]
    /\ structured = [i \in 1..Len(batch) |-> <<>>]
    /\ enhanced_media_text = [i \in 1..Len(batch) |-> <<>>]
    /\ fetches = [i \in 1..Len(batch) |-> <<>>]
    /\ requests = [i \in 1..Len(batch) |-> <<>>]
    /\ responses = [i \in 1..Len(batch) |-> <<>>]
    /\ future = [i \in 1..Len(batch) |-> [state |-> "pending"]]
    /\ structured_posts = <<>>
    /\ main_pc = "map"
    /\ outputs = <<>>

Init == \E n \in 0..NumPosts : InitOn(Batch(n))

\* ------------------------------------------------------------------ workers
\* Worker threads are interchangeable, so a thread is known by the post it
\* runs: the actions of a thread are the actions on its post.

\* classify_post leaves the media loop and calls do_request(prompt_text)
SendFirst(i, fragments) ==
    /\ requests' = [requests EXCEPT
                       ![i] = <<PromptText(structured'[i], fragments)>>]
    /\ pc' = [pc EXCEPT ![i] = "attempt1"]

\* A worker thread takes the next work item: process_post builds structured
\* and classify_post runs up to its first blocking call.
StartPost ==
    /\ queue # <<>>
    /\ ThreadAvailable
    /\ LET i == Head(queue) IN
        /\ queue' = Tail(queue)
        /\ structured' = [structured EXCEPT ![i] = Structured(posts[i])]
        /\ IF Structured(posts[i]).media = <<>>
           THEN SendFirst(i, <<>>)
           ELSE /\ pc' = [pc EXCEPT ![i] = "media"]
                /\ UNCHANGED requests
    /\ UNCHANGED <<posts, enhanced_media_text, fetches, responses, future,
                   structured_posts, main_pc, outputs>>

\* One turn of the media loop of post i; requests.get(m["url"]) ends with
\* one of the outcomes Network holds.
FetchMediaFrom(i, Network) ==
    /\ pc[i] = "media"
    /\ LET media == structured[i].media
           m == media[Len(enhanced_media_text[i]) + 1]
       IN \E outcome \in Network :
            LET fragments ==
                    Append(enhanced_media_text[i], MediaFragment(m, outcome))
            IN /\ m.type # "image" => outcome = FetchOk
               /\ enhanced_media_text' =
                      [enhanced_media_text EXCEPT ![i] = fragments]
               /\ fetches' =
                      IF m.type = "image"
                      THEN [fetches EXCEPT
                               ![i] = Append(@, [item |-> Len(fragments),
                                                 outcome |-> outcome])]
                      ELSE fetches
               /\ UNCHANGED structured
               /\ IF Len(fragments) = Len(media)
                  THEN SendFirst(i, fragments)
                  ELSE UNCHANGED <<pc, requests>>
    /\ UNCHANGED <<posts, queue, responses, future, structured_posts,
                   main_pc, outputs>>

\* process_post without time.sleep(1): it returns as soon as it is classified
FinishNoSleep(i, out) ==
    IF out.next = "raise"
    THEN /\ pc' = [pc EXCEPT ![i] = "raised"]
         /\ future' = [future EXCEPT ![i] = [state |-> "exception"]]
         /\ UNCHANGED <<structured, requests>>
    ELSE /\ pc' = [pc EXCEPT ![i] = "returned"]
         /\ structured' =
                [structured EXCEPT
                    ![i] = @ @@ [classification |-> out.classification]]
         /\ future' = [future EXCEPT
                          ![i] = [state |-> "finished",
                                  result |-> structured'[i]]]
         /\ UNCHANGED requests

\* classify_post ends: process_post stores the classification and sleeps.
\* An exception that classify_post lets through ends process_post at once:
\* the future holds it and the thread is free again.
Finish(i, out) ==
    IF out.next = "raise"
    THEN /\ pc' = [pc EXCEPT ![i] = "raised"]
         /\ future' = [future EXCEPT ![i] = [state |-> "exception"]]
         /\ UNCHANGED <<structured, requests>>
    ELSE /\ pc' = [pc EXCEPT ![i] = "sleep"]
         /\ structured' =
                [structured EXCEPT
                    ![i] = @ @@ [classification |-> out.classification]]
         /\ UNCHANGED <<future, requests>>

\* The first call of do_request for post i ends, with one of the answers
\* the service has for the text sent.
FirstReturnsFrom(i, service) ==
    /\ pc[i] = "attempt1"
    /\ \E resp \in Answers(service, requests[i][1]) :
            /\ responses' = [responses EXCEPT ![i] = Append(@, resp)]
            /\ LET out == FirstAttempt(resp) IN
               IF out.next = "retry"
               THEN /\ requests' =
                        [requests EXCEPT
                            ![i] = Append(@, Shortened(requests[i][1]))]
                    /\ pc' = [pc EXCEPT ![i] = "attempt2"]
                    /\ UNCHANGED <<structured, future>>
               ELSE Finish(i, out)
    /\ UNCHANGED <<posts, queue, enhanced_media_text, fetches, structured_posts,
                   main_pc, outputs>>

\* The second call of do_request for post i ends.
SecondReturnsFrom(i, service) ==
    /\ pc[i] = "attempt2"
    /\ \E resp \in Answers(service, requests[i][2]) :
            /\ responses' = [responses EXCEPT ![i] = Append(@, resp)]
            /\ Finish(i, SecondAttempt(responses[i][1], resp))
    /\ UNCHANGED <<posts, queue, enhanced_media_text, fetches, structured_posts,
                   main_pc, outputs>>

\* The external service and the network may answer anything they can.
FetchMedia(i) == FetchMediaFrom(i, FetchOutcomes)
FirstReturns(i) == FirstReturnsFrom(i, "any")
SecondReturns(i) == SecondReturnsFrom(i, "any")

\* time.sleep(1) ends and process_post returns structured.
Wake(i) ==
    /\ pc[i] = "sleep"
    /\ pc' = [pc EXCEPT ![i] = "returned"]
    /\ future' = [future EXCEPT
                     ![i] = [state |-> "finished", result |-> structured[i]]]
    /\ UNCHANGED <<posts, queue, structured, enhanced_media_text, fetches, requests,
                   responses, structured_posts, main_pc, outputs>>

\* --------------------------------------------------------------- partitions
EmptyDict == <<>>

\* x is True
IsTrue(x) == x.t = "bool" /\ x.v = TRUE

\* x not in [None, ""]
NotNoneOrEmpty(x) == ~(x.t = "none" \/ (x.t = "str" /\ x.v = ""))

\* ... .get("tariffs_related") is not False
IsTariffPostNotFalse(post) ==
    LET x == Get(Get(post, "classification", EmptyDict), "tariffs_related", PyNone)
    IN ~(x.t = "bool" /\ x.v = FALSE)

\* post.get("classification", {}).get("tariffs_related") is True
IsTariffPost(post) ==
    IsTrue(Get(Get(post, "classification", EmptyDict), "tariffs_related", PyNone))

\* ... .get("tariff_rate") != ""
IsOfficialTariffPostNotEmpty(post) ==
    LET x == Get(Get(post, "classification", EmptyDict), "tariff_rate", PyNone)
    IN ~(x.t = "str" /\ x.v = "")

\* Level 3 filtered out of tariff_posts
IsOfficialTariffPostOfTariffPosts(post) ==
    /\ IsTariffPost(post)
    /\ NotNoneOrEmpty(Get(Get(post, "classification", EmptyDict), "tariff_rate", PyNone))

\* post.get("classification", {}).get("tariff_rate") not in [None, ""]
IsOfficialTariffPost(post) ==
    NotNoneOrEmpty(Get(Get(post, "classification", EmptyDict), "tariff_rate", PyNone))

\* tariff_posts built newest first
TariffPostsReversed(all) ==
    LET kept == SelectSeq(all, IsTariffPost)
    IN [k \in 1..Len(kept) |-> kept[Len(kept) + 1 - k]]

TariffPosts(all) == SelectSeq(all, IsTariffPost)
OfficialTariffPosts(all) == SelectSeq(all, IsOfficialTariffPost)

\* ---------------------------------------------------------------- write_csv
RECURSIVE JoinComma(_)
\* ",".join(items)
JoinComma(items) ==
    IF items = <<>> THEN ""
    ELSE IF Len(items) = 1 THEN items[1]
    ELSE items[1] \o "," \o JoinComma(Tail(items))

RECURSIVE Join(_)
\* ", ".join(items)
Join(items) ==
    IF items = <<>> THEN ""
    ELSE IF Len(items) = 1 THEN items[1]
    ELSE items[1] \o ", " \o Join(Tail(items))

\* bool(x) of a list
Truthy(x) == x.t = "list" /\ x.v # <<>>

\* The dict write_csv hands to writer.writerow for one post
CsvRow(post) ==
    LET cls == Get(post, "classification", EmptyDict) IN
    [created_at |-> Get(post, "created_at", ""),
     content |-> Get(post, "content", ""),
     media |-> DumpList(Get(post, "media", <<>>)),
     tariffs_related |-> Get(cls, "tariffs_related", PyStr("")),
     affected_country |-> Get(cls, "affected_country", PyStr("")),
     affected_region |-> Get(cls, "affected_region", PyStr("")),
     products |-> IF Truthy(Get(cls, "products", PyNone))
                  THEN PyStr(Join(Get(cls, "products", PyList(<<>>)).v))
                  ELSE PyStr(""),
     published_time |-> Get(cls, "published_time", PyStr("")),
     tariff_rate |-> Get(cls, "tariff_rate", PyStr("")),
     classification |-> Get(cls, "classification", PyStr("")),
     media_analysis |-> Get(cls, "media_analysis", PyStr(""))]

\* The rows write_csv writes after the header
write_csv(tier) == [k \in 1..Len(tier) |-> CsvRow(tier[k])]

\* --------------------------------------------------------------------- main
\* Main takes whichever future is finished, the latest submitted first
NextFutureAsCompleted ==
    LET taken == {structured_posts[k].created_at : k \in 1..Len(structured_posts)}
        ready == {i \in Indices : /\ future[i].state = "finished"
                                  /\ posts[i].created_at \notin taken}
    IN IF ready = {}
       THEN Len(structured_posts) + 1
       ELSE CHOOSE i \in ready : \A j \in ready : j <= i

\* The future whose result the iterator of executor.map yields next
NextFuture == Len(structured_posts) + 1

\* list(executor.map(...)) takes the result of the next future, in the order
\* the posts were submitted, once that future is set.  A future that holds an
\* exception raises it in main, which nothing catches.
Gather ==
    /\ main_pc = "map"
    /\ Len(structured_posts) < Len(posts)
    /\ LET i == NextFuture IN
        /\ future[i].state # "pending"
        /\ IF future[i].state = "finished"
           THEN /\ structured_posts' = Append(structured_posts, future[i].result)
                /\ UNCHANGED main_pc
           ELSE /\ main_pc' = "raised"
                /\ UNCHANGED structured_posts
    /\ UNCHANGED <<posts, queue, pc, structured, enhanced_media_text, fetches,
                   requests, responses, future, outputs>>

\* The with block is left with whatever has been gathered so far
ExitPoolEarly ==
    /\ main_pc = "map"
    /\ main_pc' = "level1"
    /\ UNCHANGED <<posts, queue, pc, structured, enhanced_media_text, fetches,
                   requests, responses, future, structured_posts, outputs>>

\* The with block ends: executor.shutdown(wait=True) returns when no thread
\* runs a work item any more; outputs/ is created.
ExitPool ==
    /\ main_pc = "map"
    /\ Len(structured_posts) = Len(posts)
    /\ InFlight = {}
    /\ main_pc' = "level1"
    /\ UNCHANGED <<posts, queue, pc, structured, enhanced_media_text, fetches,
                   requests, responses, future, structured_posts, outputs>>

\* How the writing of one tier ends: both files written, or an OSError
\* raised by open or json.dump, or by write_csv after the json file is
\* complete.  A file that was not written to its end is not an output.
WriteOutcomes == {"ok", "json_fails", "csv_fails"}

\* The files of a tier that are complete when its writing has ended
Written(name, tier, outcome) ==
    IF outcome = "json_fails" THEN <<>>
    ELSE IF outcome = "csv_fails"
         THEN ((name \o ".json") :> JsonText(tier))
         ELSE ((name \o ".json") :> JsonText(tier))
              @@ ((name \o ".csv") :> write_csv(tier))

\* json.dump(tier, file) and write_csv(name.csv, tier)
Save(name, tier, outcome) ==
    outputs' = outputs @@ Written(name, tier, outcome)

\* main goes on to the next statement, or ends with the exception: none of
\* the writes is in a try block.
GoOn(outcome, next, failed) ==
    main_pc' = IF outcome = "ok" THEN next ELSE failed

\* Level 1: all posts
Level1 ==
    /\ main_pc = "level1"
    /\ \E outcome \in WriteOutcomes :
          /\ Save("posts", structured_posts, outcome)
          /\ GoOn(outcome, "level2", "level1_failed")
    /\ UNCHANGED <<posts, queue, pc, structured, enhanced_media_text, fetches,
                   requests, responses, future, structured_posts>>

\* Level 2: tariff-related posts
Level2 ==
    /\ main_pc = "level2"
    /\ \E outcome \in WriteOutcomes :
          /\ Save("tariff_posts", TariffPosts(structured_posts), outcome)
          /\ GoOn(outcome, "level3", "level2_failed")
    /\ UNCHANGED <<posts, queue, pc, structured, enhanced_media_text, fetches,
                   requests, responses, future, structured_posts>>

\* Level 3: posts with a tariff rate, then the printing of the three lists
Level3 ==
    /\ main_pc = "level3"
    /\ \E outcome \in WriteOutcomes :
          /\ Save("official_tariff_posts",
                  OfficialTariffPosts(structured_posts), outcome)
          /\ GoOn(outcome, "exit", "level3_failed")
    /\ UNCHANGED <<posts, queue, pc, structured, enhanced_media_text, fetches,
                   requests, responses, future, structured_posts>>

Next ==
    \/ StartPost
    \/ \E i \in Indices : FetchMedia(i)
    \/ \E i \in Indices : FirstReturns(i)
    \/ \E i \in Indices : SecondReturns(i)
    \/ \E i \in Indices : Wake(i)
    \/ Gather
    \/ ExitPool
    \/ Level1
    \/ Level2
    \/ Level3

Spec == Init /\ [][Next]_vars

\* ------------------------------------------------- a batch larger than the pool
\* One post more than the executor has threads; the last but one has media.
PoolBatch ==
    [i \in 1..(max_workers + 1) |->
        IF i = max_workers THEN MediaPost(i) ELSE PlainPost(i)]

\* The posts whose threads are in time.sleep when PoolSpec starts
Asleep == 1..(max_workers - 1)

\* The state of the run on PoolBatch in which the first max_workers - 1
\* posts have been classified by the limited service at the first attempt and
\* their threads are in time.sleep; the two other posts are in the queue.
PoolInit ==
    LET prompt(i) == PromptText(Structured(PoolBatch[i]), <<>>) IN
    /\ posts = PoolBatch
    /\ queue = <<max_workers, max_workers + 1>>
    /\ pc = [i \in 1..Len(PoolBatch) |-> IF i \in Asleep THEN "sleep" ELSE "queued"]
    /\ structured =
           [i \in 1..Len(PoolBatch) |->
               IF i \in Asleep
               THEN Structured(PoolBatch[i])
                    @@ [classification |->
                           FirstAttempt(LimitedResponse(prompt(i))).classification]
               ELSE <<>>]
    /\ enhanced_media_text = [i \in 1..Len(PoolBatch) |-> <<>>]
    /\ fetches = [i \in 1..Len(PoolBatch) |-> <<>>]
    /\ requests =
           [i \in 1..Len(PoolBatch) |-> IF i \in Asleep THEN <<prompt(i)>> ELSE <<>>]
    /\ responses =
           [i \in 1..Len(PoolBatch) |->
               IF i \in Asleep THEN <<LimitedResponse(prompt(i))>> ELSE <<>>]
    /\ future = [i \in 1..Len(PoolBatch) |-> [state |-> "pending"]]
    /\ structured_posts = <<>>
    /\ main_pc = "map"
    /\ outputs = <<>>

PoolFetchMedia(i) == FetchMediaFrom(i, {FetchOk})
PoolFirstReturns(i) == FirstReturnsFrom(i, "limited")
PoolSecondReturns(i) == SecondReturnsFrom(i, "limited")

PoolNext ==
    \/ StartPost
    \/ \E i \in Indices : PoolFetchMedia(i)
    \/ \E i \in Indices : PoolFirstReturns(i)
    \/ \E i \in Indices : PoolSecondReturns(i)
    \/ \E i \in Indices : Wake(i)
    \/ Gather
    \/ ExitPool
    \/ Level1
    \/ Level2
    \/ Level3

PoolSpec == PoolInit /\ [][PoolNext]_vars

\* Every call that is pending returns and the threads and main get to
\* run: a step that stays possible is taken.
FairPoolSpec == PoolSpec /\ WF_vars(PoolNext)

\* ------------------------------------------------------- prompts of any size
\* A post with k image attachments: each adds two or three tokens to the
\* prompt, so that the prompts of these posts have many lengths.
ImagesPost(k) ==
    [created_at |-> "1", content |-> "text",
     media_attachments |->
         [j \in 1..k |-> [type |-> "image", url |-> "u" \o ToString(j),
                          id |-> ToString(j)]]]

\* The runs of main on one such post
TruncInit == \E k \in 0..MaxMedia : InitOn(<<ImagesPost(k)>>)

TruncSpec == TruncInit /\ [][Next]_vars

\* =================================================================== claims
\* What the claims say of a response, stated without the code's own tests.

\* The call raised, or it returned a text that holds no JSON document.
Failed(resp) == resp.raised \/ resp.output_text.kind # "json"

\* The call raised the error that says the input was too long.
FailedTooLong(resp) == resp.raised /\ resp.msg = MsgTooLong

\* The message of a failure: of the call, or of the parser.
FailureMessage(resp) == IF resp.raised THEN resp.msg ELSE MsgExpectingValue

\* classify_post has returned for post i.
Classified(i) == pc[i] \in {"sleep", "returned"}

\* The two shapes of a classification
IsResultShape(cls) == DOMAIN cls = SchemaKeys
IsErrorShape(cls) == DOMAIN cls = {"error"}

\* The pool has handed its results to main, or main has died in it.
PoolLeft == main_pc # "map"

\* C1: when the pool is left, the enriched sequence is as long as the raw
\* sequence and holds every raw post exactly once, whatever the media
\* fetches and the classification calls ended with.
C1_OnePerPost ==
    /\ Len(structured_posts) <= Len(posts)
    /\ PoolLeft =>
        /\ Len(structured_posts) = Len(posts)
        /\ \A i \in Indices :
              Cardinality({k \in 1..Len(structured_posts) :
                  structured_posts[k].created_at = posts[i].created_at}) = 1

\* C1 witness: a batch of two is gathered in full although a fetch raised,
\* a first attempt was too long and a second attempt failed.
C1_Witness ==
    ( /\ PoolLeft
       /\ Len(posts) = 2
       /\ Len(structured_posts) = 2
       /\ enhanced_media_text[1][1] = MediaFragment(posts[1].media_attachments[1],
                                                    [raised |-> TRUE, status_code |-> 0])
       /\ Len(responses[1]) = 2 /\ Failed(responses[1][2])
       /\ Len(responses[2]) = 1 /\ ~Failed(responses[2][1]) )

\* C2: the k-th gathered post is the one process_post built from the k-th
\* raw post, whatever order the posts completed in.
C2_InputOrder ==
    \A k \in 1..Len(structured_posts) :
        /\ structured_posts[k].created_at = posts[k].created_at
        /\ structured_posts[k].content = posts[k].content
        /\ structured_posts[k].media = Structured(posts[k]).media
        /\ structured_posts[k] = structured[k]

\* C2 witness: the second post completed while the first one still runs,
\* and the first post is gathered first all the same.
C2_Witness ==
    ( /\ Len(posts) = 2
       /\ pc[2] = "returned"
       /\ pc[1] \in Running
       /\ structured_posts = <<>> )

\* C2 witness, later: both are gathered, with different classifications.
C2_WitnessGathered ==
    ( /\ Len(structured_posts) = 2
       /\ structured_posts[1].classification # structured_posts[2].classification )

\* C3: at most two calls per post, and a second call only after the first
\* attempt failed with the too-long error.
C3_AtMostTwoCalls ==
    \A i \in Indices :
        /\ Len(requests[i]) <= 2
        /\ Len(responses[i]) <= Len(requests[i])
        /\ Len(requests[i]) = 2 => FailedTooLong(responses[i][1])
        /\ Classified(i) => Len(responses[i]) = Len(requests[i])

\* C3 witness: the second attempt failed with the too-long error as well
\* and classify_post returned after it.
C3_Witness ==
    (\E i \in Indices :
        /\ Classified(i)
        /\ Len(requests[i]) = 2
        /\ FailedTooLong(responses[i][2]))

\* C4: a first attempt that fails otherwise than with the too-long error
\* ends classify_post with the error-result of that failure, after one call.
C4_OtherFailureNoRetry ==
    \A i \in Indices :
        (Len(responses[i]) >= 1 /\ Failed(responses[i][1])
            /\ ~FailedTooLong(responses[i][1]))
        => /\ Classified(i)
           /\ Len(requests[i]) = 1
           /\ Len(responses[i]) = 1
           /\ structured[i].classification =
                  [error |-> PyStr(FailureMessage(responses[i][1]))]

\* C4 witness: one post failed with a service error, another with a text
\* that is no JSON.
C4_Witness ==
    (\E i, j \in Indices :
        /\ Classified(i) /\ Classified(j)
        /\ responses[i] = << [raised |-> TRUE, msg |-> MsgServerError] >>
        /\ responses[j] = << [raised |-> FALSE, output_text |-> EmptyText] >>)

\* C5: too long at the first attempt and a parseable answer at the second
\* give the document of the second answer, with its eight fields and no
\* error field.
C5_RetrySucceeds ==
    \A i \in Indices :
        (Classified(i) /\ Len(responses[i]) = 2
            /\ FailedTooLong(responses[i][1]) /\ ~Failed(responses[i][2]))
        => /\ structured[i].classification = responses[i][2].output_text.doc
           /\ IsResultShape(structured[i].classification)
           /\ "error" \notin DOMAIN structured[i].classification

\* C5 witness: such a post, sent a strictly shorter text the second time.
C5_Witness ==
    (\E i \in Indices :
        /\ Classified(i) /\ Len(responses[i]) = 2
        /\ FailedTooLong(responses[i][1]) /\ ~Failed(responses[i][2])
        /\ Len(requests[i][2]) < Len(requests[i][1]))

\* C6: a second attempt that fails, for whatever cause, gives the
\* error-result with the message of the second failure.
C6_RetryFails ==
    \A i \in Indices :
        (Classified(i) /\ Len(responses[i]) = 2 /\ Failed(responses[i][2]))
        => structured[i].classification =
               [error |-> PyStr(FailureMessage(responses[i][2]))]

\* C6 witness: the second failure is another one than the first.
C6_Witness ==
    (\E i \in Indices :
        /\ Classified(i) /\ Len(responses[i]) = 2 /\ Failed(responses[i][2])
        /\ FailureMessage(responses[i][2]) # FailureMessage(responses[i][1]))

\* C7: the classification of a post has the eight fields and no error
\* field, or the error field alone.
C7_ExactlyOneShape ==
    \A i \in Indices :
        Classified(i) =>
            LET cls == structured[i].classification IN
            /\ IsResultShape(cls) \/ IsErrorShape(cls)
            /\ ~(IsResultShape(cls) /\ IsErrorShape(cls))
            /\ "error" \in DOMAIN cls => DOMAIN cls \cap SchemaKeys = {}

\* C7 witness: both shapes in one batch, the error one from a text that
\* was no JSON.
C7_Witness ==
    (\E i, j \in Indices :
        /\ Classified(i) /\ Classified(j)
        /\ IsResultShape(structured[i].classification)
        /\ IsErrorShape(structured[j].classification)
        /\ ~responses[j][Len(responses[j])].raised)

\* The classification the claims give a post whose calls ended with rs
Expected(rs) ==
    LET last == rs[Len(rs)] IN
    IF Failed(last)
    THEN [error |-> PyStr(FailureMessage(last))]
    ELSE last.output_text.doc

OutputFiles ==
    {"posts.json", "posts.csv", "tariff_posts.json", "tariff_posts.csv",
     "official_tariff_posts.json", "official_tariff_posts.csv"}

\* main has ended with the OSError of a write
WriteFailed == {"level1_failed", "level2_failed", "level3_failed"}

\* C8: no failure of a fetch or of a call aborts the batch or reaches
\* another post: main never dies of a post, every classification is decided
\* by the answers to that post alone, the run can go on until it has ended
\* or a write has failed, and a run that has ended without a failed write
\* has written the three tiers over the complete enriched sequence.
C8_FailuresAreData ==
    /\ main_pc # "raised"
    /\ main_pc \notin {"exit"} \cup WriteFailed => ENABLED Next
    /\ \A i \in Indices : pc[i] # "raised" /\ future[i].state # "exception"
    /\ \A i \in Indices :
          Classified(i) => structured[i].classification = Expected(responses[i])
    /\ main_pc = "exit" =>
          /\ DOMAIN outputs = OutputFiles
          /\ Len(structured_posts) = Len(posts)
          /\ outputs["posts.json"].doc = structured_posts
          /\ Len(outputs["posts.csv"]) = Len(posts)
          /\ \A k \in Indices :
                structured_posts[k].classification = Expected(responses[k])

\* C8 witness: a run has ended in which the first post failed twice and a
\* fetch raised while the second post was classified.
C8_Witness ==
    ( /\ main_pc = "exit"
       /\ Len(posts) = 2
       /\ Len(responses[1]) = 2 /\ Failed(responses[1][2])
       /\ Len(enhanced_media_text[1][1]) = 3
       /\ enhanced_media_text[1][1][3] = " (failed to fetch image)"
       /\ IsErrorShape(structured_posts[1].classification)
       /\ IsResultShape(structured_posts[2].classification) )

\* C9: never more than 10 posts are in the media loop, in a call, in the
\* retry or in the pacing pause.
C9_AtMostTenInFlight ==
    Cardinality({i \in Indices : pc[i] \in Running}) <= 10

\* C9 witness: ten posts are in flight and the eleventh waits in the queue.
C9_Witness ==
    ( /\ Cardinality({i \in Indices : pc[i] \in Running}) = 10
       /\ queue # <<>>
       /\ Len(posts) > 10 )

\* The claim's test of tier Relevant
RelevantByClaim(post) ==
    /\ "classification" \in DOMAIN post
    /\ "tariffs_related" \in DOMAIN post.classification
    /\ post.classification.tariffs_related = PyBool(TRUE)

\* C10: tariff_posts holds exactly the enriched posts whose tariffs_related
\* is the boolean true, in their order.
C10_RelevantTier ==
    "tariff_posts.json" \in DOMAIN outputs =>
        /\ outputs["tariff_posts.json"].doc =
               SelectSeq(structured_posts, RelevantByClaim)
        /\ "tariff_posts.csv" \in DOMAIN outputs =>
               Len(outputs["tariff_posts.csv"]) =
                   Len(SelectSeq(structured_posts, RelevantByClaim))
        /\ \A k \in 1..Len(outputs["tariff_posts.json"].doc) :
               IsResultShape(outputs["tariff_posts.json"].doc[k].classification)

\* C10 witness: the tier is written; it holds one post and leaves out a
\* post with an error-result.
C10_Witness ==
    ( /\ "tariff_posts.json" \in DOMAIN outputs
       /\ Len(outputs["tariff_posts.json"].doc) = 1
       /\ \E k \in 1..Len(structured_posts) :
             IsErrorShape(structured_posts[k].classification) )

\* C10 witness: the tier leaves out a post whose tariffs_related is false.
C10_WitnessFalse ==
    ( /\ "tariff_posts.json" \in DOMAIN outputs
       /\ Len(outputs["tariff_posts.json"].doc) = 1
       /\ \E k \in 1..Len(structured_posts) :
             /\ IsResultShape(structured_posts[k].classification)
             /\ structured_posts[k].classification.tariffs_related = PyBool(FALSE) )


\* The claim's test of tier RatePresent
RatePresentByClaim(post) ==
    /\ "classification" \in DOMAIN post
    /\ "tariff_rate" \in DOMAIN post.classification
    /\ post.classification.tariff_rate # PyNone
    /\ post.classification.tariff_rate # PyStr("")

\* C11: official_tariff_posts holds exactly the enriched posts whose
\* tariff_rate is present and neither null nor the empty string, in their
\* order; a post with an error-result is never in it.
C11_RatePresentTier ==
    "official_tariff_posts.json" \in DOMAIN outputs =>
        LET tier == outputs["official_tariff_posts.json"].doc IN
        /\ tier = SelectSeq(structured_posts, RatePresentByClaim)
        /\ "official_tariff_posts.csv" \in DOMAIN outputs =>
               Len(outputs["official_tariff_posts.csv"]) = Len(tier)
        /\ \A k \in 1..Len(tier) :
              /\ ~IsErrorShape(tier[k].classification)
              /\ tier[k].classification.tariff_rate.t = "str"
              /\ tier[k].classification.tariff_rate.v # ""

\* C11 witness: the tier is written; it holds one post of two and leaves
\* out a post with an error-result.
C11_Witness ==
    /\ "official_tariff_posts.json" \in DOMAIN outputs
    /\ Len(structured_posts) = 2
    /\ Len(outputs["official_tariff_posts.json"].doc) = 1
    /\ \E k \in 1..2 : IsErrorShape(structured_posts[k].classification)

\* C11 witness: posts whose tariff_rate is null and is the empty string
\* are left out.
C11_WitnessNullAndEmpty ==
    /\ "official_tariff_posts.json" \in DOMAIN outputs
    /\ Len(structured_posts) = 2
    /\ outputs["official_tariff_posts.json"].doc = <<>>
    /\ structured_posts[1].classification = SchemaResult(TRUE, PyNone, <<>>)
    /\ structured_posts[2].classification = SchemaResult(FALSE, PyStr(""), <<>>)


RECURSIVE IsSubSeq(_, _)
\* s can be obtained from all by deleting elements, keeping the order
IsSubSeq(s, all) ==
    IF s = <<>> THEN TRUE
    ELSE IF all = <<>> THEN FALSE
    ELSE IF Head(s) = Head(all) THEN IsSubSeq(Tail(s), Tail(all))
    ELSE IsSubSeq(s, Tail(all))

\* C12: once written, tier All is the enriched sequence unchanged, tiers
\* Relevant and RatePresent are subsequences of it in retrieval order, and
\* applying a tier's predicate to tier All or to the tier itself gives the
\* tier again.
C12_TiersAreFilters ==
    /\ "posts.json" \in DOMAIN outputs =>
           outputs["posts.json"].doc = structured_posts
    /\ "tariff_posts.json" \in DOMAIN outputs =>
           LET all == outputs["posts.json"].doc
               tier == outputs["tariff_posts.json"].doc IN
           /\ IsSubSeq(tier, all)
           /\ SelectSeq(all, RelevantByClaim) = tier
           /\ SelectSeq(tier, RelevantByClaim) = tier
    /\ "official_tariff_posts.json" \in DOMAIN outputs =>
           LET all == outputs["posts.json"].doc
               tier == outputs["official_tariff_posts.json"].doc IN
           /\ IsSubSeq(tier, all)
           /\ SelectSeq(all, RatePresentByClaim) = tier
           /\ SelectSeq(tier, RatePresentByClaim) = tier

\* C12 witness: all three tiers are written, tier Relevant holds both posts
\* of the batch and tier RatePresent a proper part of it.
C12_Witness ==
    /\ "official_tariff_posts.json" \in DOMAIN outputs
    /\ Len(outputs["posts.json"].doc) = 2
    /\ Len(outputs["tariff_posts.json"].doc) = 2
    /\ Len(outputs["official_tariff_posts.json"].doc) = 1


\* The fetches of post i that returned a response with a status other than 200
NonOkFetches(i) ==
    { k \in 1..Len(fetches[i]) :
        /\ ~fetches[i][k].outcome.raised
        /\ fetches[i][k].outcome.status_code # 200 }

\* The fragment of the media item that fetch k of post i was made for
FragmentOf(i, k) == enhanced_media_text[i][fetches[i][k].item]

\* The url of that media item
UrlOf(i, k) == structured[i].media[fetches[i][k].item].url

\* The tokens of the first prompt of post i that follow its header
PromptBody(i) == SubSeq(requests[i][1], 8, Len(requests[i][1]))

\* C13 as stated: an image whose fetch returns a status other than 200
\* gives the fragment "Image URL: <url> (failed to fetch image)".
C13_AsStated ==
    \A i \in Indices : \A k \in NonOkFetches(i) :
        FragmentOf(i, k) = <<"Image URL: ", UrlOf(i, k), " (failed to fetch image)">>

\* C13, amended: an image whose fetch returns a status other than 200 gives
\* the fragment "Image URL: <url>" with nothing after the url and no data
\* payload, and the prompt sent holds that fragment; the text
\* "Image URL: <url> (failed to fetch image)" is the fragment exactly of
\* the images whose fetch raised.
C13_NonOkFallback ==
    \A i \in Indices : \A k \in 1..Len(fetches[i]) :
        LET o == fetches[i][k].outcome
            frag == FragmentOf(i, k)
        IN /\ (~o.raised /\ o.status_code # 200) =>
                  /\ frag = <<"Image URL: ", UrlOf(i, k)>>
                  /\ requests[i] # <<>> =>
                         /\ fetches[i][k].item = 1
                         /\ SubSeq(PromptBody(i), 1, 2) = frag
                         /\ PromptBody(i)[3] # " (failed to fetch image)"
           /\ frag = <<"Image URL: ", UrlOf(i, k), " (failed to fetch image)">>
                  <=> o.raised

\* C13 witness: the image of post 1 was answered with status 404 and the
\* prompt built from it has been sent.
C13_Witness ==
    /\ Len(posts) >= 1
    /\ NonOkFetches(1) # {}
    /\ requests[1] # <<>>
    /\ enhanced_media_text[1][1] = <<"Image URL: ", "u1">>


\* The names of the three tiers' files
TierNames == {"posts", "tariff_posts", "official_tariff_posts"}

\* The eight classification columns of a row are all the empty string
EmptyClassificationColumns(row) ==
    \A col \in SchemaKeys : row[col] = PyStr("")

\* The products of the schema's documents hold one or two names
ProductsField(products) ==
    IF Len(products) = 1 THEN products[1]
    ELSE products[1] \o ", " \o products[2]

\* C14: the csv of a tier has one row per post of the tier, in the tier's
\* order; the row of a post with an error-result has the empty string in
\* each of the eight classification columns, and the row of a post with a
\* non-empty products list has the products joined by ", " in one field.
C14_CsvRendering ==
    \A name \in TierNames :
        (name \o ".csv") \in DOMAIN outputs =>
            LET rows == outputs[name \o ".csv"]
                tier == outputs[name \o ".json"].doc
            IN /\ Len(rows) = Len(tier)
               /\ \A k \in 1..Len(tier) :
                     LET cls == tier[k].classification IN
                     /\ rows[k].created_at = tier[k].created_at
                     /\ rows[k].content = tier[k].content
                     /\ DOMAIN rows[k] =
                            {"created_at", "content", "media"} \cup SchemaKeys
                     /\ IsErrorShape(cls) => EmptyClassificationColumns(rows[k])
                     /\ (IsResultShape(cls) /\ cls.products.v # <<>>) =>
                            rows[k].products = PyStr(ProductsField(cls.products.v))

\* C14 witness: posts.csv is written with two rows, the first of a post
\* whose products are steel and aluminum, the second of a post with an
\* error-result.
C14_Witness ==
    /\ "posts.csv" \in DOMAIN outputs
    /\ Len(outputs["posts.csv"]) = 2
    /\ outputs["posts.csv"][1].products = PyStr("steel, aluminum")
    /\ IsErrorShape(structured_posts[2].classification)
    /\ EmptyClassificationColumns(outputs["posts.csv"][2])


\* Every post of the batch has completed with a result or an error-result
\* and the results have been gathered in the order of the input.
BatchGathered ==
    /\ Len(structured_posts) = Len(posts)
    /\ \A i \in Indices :
          /\ pc[i] = "returned"
          /\ future[i].state = "finished"
          /\ structured_posts[i] = future[i].result
          /\ structured_posts[i].created_at = posts[i].created_at
          /\ \/ IsResultShape(structured_posts[i].classification)
             \/ IsErrorShape(structured_posts[i].classification)

\* C15: main is past the pool, or any output file exists, only when every
\* post has completed and all results are gathered in input order.
C15_NoEarlyOutput ==
    (main_pc \in {"level1", "level2", "level3", "exit"} \cup WriteFailed
        \/ DOMAIN outputs # {})
        => BatchGathered

\* C15 witness: the first tier of a batch of two posts is written, after a
\* post with a result and a post with an error-result.
C15_Witness ==
    /\ Len(posts) = 2
    /\ DOMAIN outputs = {"posts.json", "posts.csv"}
    /\ IsResultShape(structured_posts[1].classification)
    /\ IsErrorShape(structured_posts[2].classification)


\* Post i has its classification, a result or an error-result
HasClassification(s, i) == "classification" \in DOMAIN s[i]

\* The worker of post i is in the pacing pause
Pausing(i) == pc[i] = "sleep"

\* What a step does to post i: its classification is followed by the
\* pause, the pause ends only with the return of process_post, and a post
\* is returned only out of the pause.
PauseAfterClassification(i) ==
    /\ (~HasClassification(structured, i) /\ HasClassification(structured', i))
           => /\ pc'[i] = "sleep"
              /\ future'[i].state = "pending"
    /\ Pausing(i) => pc'[i] \in {"sleep", "returned"}
    /\ (pc[i] # "returned" /\ pc'[i] = "returned") => Pausing(i)

\* A post leaves the queue only when fewer than max_workers workers are
\* working or pausing: no pausing worker takes it.
NoStartByPausingWorker ==
    queue' # queue =>
        Cardinality({j \in Indices : pc[j] \in Running}) < max_workers

\* A pausing worker keeps nothing another worker waits for: each other
\* post in flight can take its step, and a queued post can start when a
\* worker is free.
PauseHoldsNothing ==
    \A i \in Indices :
        Pausing(i) =>
            /\ \A j \in Indices \ {i} :
                  /\ pc[j] = "media" => ENABLED PoolFetchMedia(j)
                  /\ pc[j] = "attempt1" => ENABLED PoolFirstReturns(j)
                  /\ pc[j] = "attempt2" => ENABLED PoolSecondReturns(j)
                  /\ pc[j] = "sleep" => ENABLED Wake(j)
            /\ (queue # <<>> /\ Cardinality(InFlight) < max_workers)
                   => ENABLED StartPost

\* C16: a worker that has classified a post, with a result or an
\* error-result, after one attempt or two, pauses before its post is
\* returned and before it takes another post, and the pause blocks no
\* other worker.
C16_PauseBeforeNextPost ==
    /\ [][(\A i \in Indices : PauseAfterClassification(i))
            /\ NoStartByPausingWorker]_vars
    /\ []PauseHoldsNothing

\* C16 witness: the post classified with an error-result after two
\* attempts is in the pause while the last post, started after another
\* worker ended its pause, pauses after one attempt with a result.
C16_Witness ==
    /\ Len(posts) > max_workers
    /\ Pausing(max_workers)
    /\ Len(requests[max_workers]) = 2
    /\ IsErrorShape(structured[max_workers].classification)
    /\ Pausing(max_workers + 1)
    /\ Len(requests[max_workers + 1]) = 1
    /\ IsResultShape(structured[max_workers + 1].classification)


\* k is floor(0.9 * L)
IsFloorOfNineTenths(k, L) == 10 * k <= 9 * L /\ 9 * L < 10 * k + 10

\* short is the prefix of long of length floor(0.9 * Len(long)), and is
\* strictly shorter than long
IsTruncationOf(short, long) ==
    /\ IsFloorOfNineTenths(Len(short), Len(long))
    /\ Len(short) < Len(long)
    /\ \A j \in 1..Len(short) : short[j] = long[j]

\* Texts of every length up to MaxPromptLen
SomeText(L) == [j \in 1..L |-> ToString(j)]

\* C17: the second request of a post is the prefix of its first request of
\* length floor(0.9 * L), strictly shorter; no post has a third request,
\* and the truncation of a text of any length L >= 1 is strictly shorter.
C17_TruncatedOnce ==
    /\ \A i \in Indices :
          /\ Len(requests[i]) <= 2
          /\ Len(requests[i]) = 2 =>
                 /\ Len(requests[i][1]) >= 1
                 /\ IsTruncationOf(requests[i][2], requests[i][1])
                 /\ requests[i][1] = PromptText(structured[i], enhanced_media_text[i])
    /\ \A L \in 1..MaxPromptLen :
          IsTruncationOf(Shortened(SomeText(L)), SomeText(L))

\* C17 witness: a prompt of ten tokens was too long and nine of them
\* were sent again; the second call has returned.
C17_Witness ==
    /\ Len(posts) = 1
    /\ Len(requests[1]) = 2
    /\ Len(requests[1][1]) = 10
    /\ Len(requests[1][2]) = 9
    /\ Len(responses[1]) = 2

\* C17 witness: a prompt whose length is not a multiple of ten
C17_WitnessFloor ==
    /\ Len(posts) = 1
    /\ Len(requests[1]) = 2
    /\ Len(requests[1][1]) = 19
    /\ Len(requests[1][2]) = 17


\* main is past list(executor.map(...)) with a result for each post
CallerUnblocked ==
    /\ main_pc \notin {"map", "raised"}
    /\ Len(structured_posts) = Len(posts)

\* Every post is done: process_post has returned its enriched post
AllDone == \A i \in Indices : pc[i] = "returned" /\ future[i].state = "finished"

\* C18: when every pending fetch and call returns and the workers are
\* scheduled fairly, a batch longer than the number of workers ends with
\* every post done and the caller unblocked with all results gathered.
C18_BatchCompletes == <>(AllDone /\ CallerUnblocked /\ BatchGathered)

\* C18 witness: all eleven posts of the batch are done and gathered, the
\* eleventh having waited for a worker, and main has left the pool.
C18_Witness ==
    /\ Len(posts) = max_workers + 1
    /\ AllDone
    /\ CallerUnblocked
    /\ IsErrorShape(structured_posts[max_workers].classification)
    /\ IsResultShape(structured_posts[max_workers + 1].classification)


\* The tier whose writing failed when main ended in state s
FailedTier(s) ==
    IF s = "level1_failed" THEN "posts"
    ELSE IF s = "level2_failed" THEN "tariff_posts"
    ELSE "official_tariff_posts"

\* The posts a tier is to hold
TierByClaim(name) ==
    IF name = "posts" THEN structured_posts
    ELSE IF name = "tariff_posts" THEN SelectSeq(structured_posts, RelevantByClaim)
    ELSE SelectSeq(structured_posts, RatePresentByClaim)

\* Both outputs of a tier are produced in full
ProducedInFull(name) ==
    /\ (name \o ".json") \in DOMAIN outputs
    /\ (name \o ".csv") \in DOMAIN outputs
    /\ outputs[name \o ".json"].doc = TierByClaim(name)
    /\ Len(outputs[name \o ".csv"]) = Len(TierByClaim(name))

\* C19 as stated: when the writing of one tier has failed, in either
\* representation, and the run has ended, the json and the csv of every
\* other tier are produced in full.
C19_AsStated ==
    main_pc \in WriteFailed =>
        \A name \in TierNames \ {FailedTier(main_pc)} : ProducedInFull(name)


\* The posts a tier's json document holds
PostsOf(name) ==
    LET tier == outputs[name \o ".json"].doc
    IN {tier[k] : k \in 1..Len(tier)}

\* C20 as stated: every post of tier RatePresent is in tier Relevant and
\* every post of tier Relevant is in tier All.
C20_AsStated ==
    "official_tariff_posts.json" \in DOMAIN outputs =>
        /\ PostsOf("official_tariff_posts") \subseteq PostsOf("tariff_posts")
        /\ PostsOf("tariff_posts") \subseteq PostsOf("posts")

\* C20, amended: tiers Relevant and RatePresent are filtered out of tier
\* All each on its own: both are within All, every post of All with a
\* tariff_rate is in RatePresent whatever its tariffs_related, and a post
\* of RatePresent is in Relevant exactly when its tariffs_related is true.
C20_IndependentFilters ==
    "official_tariff_posts.json" \in DOMAIN outputs =>
        /\ PostsOf("official_tariff_posts") \subseteq PostsOf("posts")
        /\ PostsOf("tariff_posts") \subseteq PostsOf("posts")
        /\ \A post \in PostsOf("posts") :
              RatePresentByClaim(post) <=> post \in PostsOf("official_tariff_posts")
        /\ \A post \in PostsOf("official_tariff_posts") :
              post \in PostsOf("tariff_posts") <=> RelevantByClaim(post)

\* C20 witness: the three tiers are written and tier RatePresent holds a
\* post, classified as not related with a rate of 10%, that tier Relevant
\* does not hold, beside one that both hold.
C20_Witness ==
    /\ "official_tariff_posts.json" \in DOMAIN outputs
    /\ Len(outputs["official_tariff_posts.json"].doc) = 2
    /\ Len(outputs["tariff_posts.json"].doc) = 1
    /\ \E post \in PostsOf("official_tariff_posts") :
          /\ post \notin PostsOf("tariff_posts")
          /\ post.classification.tariffs_related = PyBool(FALSE)
          /\ post.classification.tariff_rate = PyStr("10%")

====
